---- MODULE Spec2Model ----
(***************************************************************************)
(* MCP client adapter: one query run of execute_query (process-pipe and    *)
(* network clients), its helpers _normalize_tool_list, _build_arguments    *)
(* and _extract_response_text, and the registry build create_mcp_tools.    *)
(*                                                                         *)
(* Python strings are sequences of string pieces, so that concatenation    *)
(* (f-strings) and "\n".join are computed, not assumed.  The Japanese      *)
(* literals of the source are written in ASCII; the original is quoted in  *)
(* the comment of each.                                                    *)
(***************************************************************************)
EXTENDS Integers, Sequences, FiniteSets, TLC

VARIABLES
    pc,         \* position of the running execute_query ("idle" when none)
    kind,       \* which client runs it: "stdio" (BaseMCPClient) or "http"
    query,      \* the query argument of the run
    via,        \* name of the registered action whose func started the run
    run,        \* number of execute_query runs started so far
    conns,      \* every connection opened so far: [owner, open, users]
    calls,      \* protocol operations of the current run, in order
    catalog,    \* what list_tools returned in the current run
    pending,    \* how the body of `async with` was left: value or exception
    client,     \* index in conns of the connection the run holds, 0 if none
    failure,    \* the exception raised inside the try of the run, if any
    ret,        \* what execute_query handed to its caller
    bpc,        \* position of create_mcp_tools ("idle" before it is called)
    mcp_tools,  \* its local list of actions built so far
    registry,   \* the list it returned to its caller
    build_err,  \* the error it raised: its kind and the names it reports
    fetched,    \* the transports whose create_*_mcp_tools has come back
    discovered, \* what the discovery connection of each transport met
    mcp_meta,   \* the _mcp_meta attribute of stdio_mcp_query and http_mcp_query
    fn,         \* helper under direct call: which one, "" when none
    fn_in,      \* its argument(s)
    fn_out      \* its outcome: a value or a raised exception

qvars == <<pc, kind, query, via, run, conns, calls, catalog, pending, client,
          failure, ret>>
bvars == <<bpc, mcp_tools, registry, build_err, fetched, discovered, mcp_meta>>
fvars == <<fn, fn_in, fn_out>>

-----------------------------------------------------------------------------
(* Bounds *)

MaxRuns == 2        \* execute_query runs in one behaviour
MaxTools == 2       \* tools in one catalog
MaxBlocks == 2      \* content blocks in one tool result
MaxParams == 2      \* entries of `required` and of `properties` in a schema

-----------------------------------------------------------------------------
(* Text *)

\* "MCPサーバーへの接続エラー: "
ErrorMarker == <<"MCP server connection error: ">>
\* "MCPサーバーに利用可能なツールが見つかりませんでした。"
NoToolsMessage == <<"No tools available on the MCP server.">>
\* "MCPサーバーからの応答が空でした。"
EmptyResponseMessage == <<"The response of the MCP server was empty.">>
\* "MCPツールのスキーマ情報を取得できませんでした。"
SchemaErrorMessage == <<"Could not get the schema of the MCP tool.">>

StartsWith(text, prefix) ==
    /\ Len(text) >= Len(prefix)
    /\ SubSeq(text, 1, Len(prefix)) = prefix

\* "\n".join(pieces)
RECURSIVE JoinLines(_)
JoinLines(pieces) ==
    IF pieces = <<>> THEN <<>>
    ELSE IF Len(pieces) = 1 THEN pieces[1]
    ELSE pieces[1] \o <<"\n">> \o JoinLines(Tail(pieces))

\* Outcome of a call that may raise.
Returned(v) == [ok |-> TRUE, val |-> v, err |-> <<>>]
Raised(desc) == [ok |-> FALSE, val |-> <<>>, err |-> desc]

\* All sequences over S of length at most n.
BSeq(S, n) == UNION {[1..k -> S] : k \in 0..n}

\* A Python dict's keys are distinct; sequences over S without repetition.
Distinct(s) == \A i, j \in 1..Len(s) : i # j => s[i] # s[j]
KeySeq(S, n) == {s \in BSeq(S, n) : Distinct(s)}

Range(s) == {s[i] : i \in 1..Len(s)}

-----------------------------------------------------------------------------
(* Values the servers send *)

\* An inputSchema: None, or a dict whose `required` (a list) and `properties`
\* (a dict, kept as its keys in declaration order) may each be missing.
SchemaDict(hasR, r, hasP, p) ==
    [isNone |-> FALSE, hasRequired |-> hasR, required |-> r,
     hasProperties |-> hasP, properties |-> p]
SchemaNone == [isNone |-> TRUE, hasRequired |-> FALSE, required |-> <<>>,
               hasProperties |-> FALSE, properties |-> <<>>]
EmptyDict == SchemaDict(FALSE, <<>>, FALSE, <<>>)

\* A tool object; an attribute the object lacks has its has-flag FALSE.
ToolObj(hasN, n, hasD, d, hasS, s) ==
    [hasName |-> hasN, name |-> n, hasDescription |-> hasD, description |-> d,
     hasInputSchema |-> hasS, inputSchema |-> s]

\* str(tool) of a tool object
StrOfTool(tool) == "<tool object>"

\* What list_tools hands back: an object with a `tools` attribute, a list,
\* or something else (a dict holding the tools under a key, None).
RawCatalog(shape, tools) == [shape |-> shape, tools |-> tools]
HasToolsAttr(raw) == raw.shape = "wrapper"
IsList(raw) == raw.shape = "list"

\* A content block: TextContent carries `text`; other blocks do not.
TextBlock(t) == [hasText |-> TRUE, text |-> t, str |-> <<"TextContent(", "...", ")">>]
OpaqueBlock == [hasText |-> FALSE, text |-> <<>>, str |-> <<"ImageContent(...)">>]
Blocks == {TextBlock(<<"a">>), TextBlock(<<"b">>), TextBlock(<<>>), OpaqueBlock}

\* What call_tool hands back: an object whose `content` attribute is a list
\* of blocks or None, or an object without that attribute.
ResultObj(hasC, isNone, c) == [hasContent |-> hasC, contentIsNone |-> isNone, content |-> c]
Results ==
    {ResultObj(TRUE, FALSE, c) : c \in BSeq(Blocks, MaxBlocks)}
        \cup {ResultObj(TRUE, TRUE, <<>>), ResultObj(FALSE, FALSE, <<>>)}

\* The results a server answers a query's call_tool with.
ServedResults ==
    { ResultObj(FALSE, FALSE, <<>>), ResultObj(TRUE, TRUE, <<>>),
      ResultObj(TRUE, FALSE, <<>>),
      ResultObj(TRUE, FALSE, <<TextBlock(<<"a">>)>>),
      ResultObj(TRUE, FALSE, <<TextBlock(<<"b">>), TextBlock(<<"a">>)>>),
      ResultObj(TRUE, FALSE, <<OpaqueBlock, TextBlock(<<"a">>)>>) }

Queries == {"hello", "hi"}

\* Parameter names a schema may declare: names of the priority list, out of
\* its order, and names outside it, out of alphabetical order.
Params == {"zeta", "question", "prompt", "alpha", "query"}

\* Every inputSchema with at most MaxParams entries in each member.
Schemas ==
    {SchemaDict(hr, r, hp, p) :
        hr \in BOOLEAN, r \in BSeq(Params, MaxParams),
        hp \in BOOLEAN, p \in KeySeq(Params, MaxParams)}
    \cup {SchemaNone}
WellFormedSchema(s) ==
    /\ (~s.hasRequired => s.required = <<>>)
    /\ (~s.hasProperties => s.properties = <<>>)

\* The tools a direct call of _build_arguments is tried on.
SchemaTools ==
    {ToolObj(TRUE, "search", TRUE, <<"Search the documents">>, TRUE, s) :
        s \in {x \in Schemas : WellFormedSchema(x)}}
    \cup {ToolObj(TRUE, "search", TRUE, <<"Search the documents">>, FALSE, EmptyDict)}

\* The tools the servers advertise to a query: one whose schema names a
\* required parameter, one whose properties hold names of the priority list,
\* one object without a name whose properties hold none of them, and one
\* without an inputSchema.
SearchTool ==
    ToolObj(TRUE, "search", TRUE, <<"Search the documents">>, TRUE,
            SchemaDict(TRUE, <<"zeta", "query">>, TRUE, <<"query", "zeta">>))
LookupTool ==
    ToolObj(TRUE, "lookup", TRUE, <<"Look up a term over ", "HTTP">>, TRUE,
            SchemaDict(FALSE, <<>>, TRUE, <<"alpha", "prompt", "query">>))
BareTool ==
    ToolObj(FALSE, "", FALSE, <<>>, TRUE,
            SchemaDict(TRUE, <<>>, TRUE, <<"zeta", "alpha">>))
FetchTool == ToolObj(TRUE, "fetch", TRUE, <<"Fetch a page">>, FALSE, EmptyDict)
ToolPool == {SearchTool, LookupTool, BareTool, FetchTool}

\* Every discovery response of at most MaxTools tools.
ToolLists == BSeq(ToolPool, MaxTools)
RawCatalogs ==
    {RawCatalog(sh, ts) : sh \in {"wrapper", "list", "dict"}, ts \in ToolLists}
        \cup {RawCatalog("none", <<>>)}

-----------------------------------------------------------------------------
(* The helpers of both clients (base_client.py and http_client.py hold the   *)
(* same three methods, statement for statement)                              *)

NormalizeToolList_AnyHolder(tools) ==
    IF tools.shape \in {"wrapper", "list", "dict"} THEN tools.tools ELSE <<>>

NormalizeToolList_ListOnly(tools) ==
    IF IsList(tools) THEN tools.tools ELSE <<>>

\* _normalize_tool_list: tools.tools, else the list itself, else [].
NormalizeToolList(tools) ==
    IF HasToolsAttr(tools) THEN tools.tools
    ELSE IF IsList(tools) THEN tools.tools
    ELSE <<>>

\* ["query", "prompt", "input", "text", "question"]
common_params == <<"query", "prompt", "input", "text", "question">>

\* tool.inputSchema if hasattr(tool, "inputSchema") else {}
InputSchemaOf(tool) == IF tool.hasInputSchema THEN tool.inputSchema ELSE EmptyDict

\* truth value of an inputSchema: None and the empty dict are false
SchemaTruthy(s) == ~s.isNone /\ (s.hasRequired \/ s.hasProperties)

\* input_schema.get("required", []) if input_schema else []
RequiredParams(s) == IF SchemaTruthy(s) /\ s.hasRequired THEN s.required ELSE <<>>

\* input_schema.get("properties", {}) if input_schema else {}
Properties(s) == IF SchemaTruthy(s) /\ s.hasProperties THEN s.properties ELSE <<>>

\* The priority list is scanned before `required` is looked at.
BuildArguments_PriorityFirst(tool, q) ==
    LET input_schema == InputSchemaOf(tool)
        required_params == RequiredParams(input_schema)
        properties == Properties(input_schema)
        found == {i \in 1..Len(common_params) : common_params[i] \in Range(properties)}
    IN  IF found # {}
        THEN LET first == CHOOSE i \in found : \A j \in found : i <= j
             IN  Returned(<< <<common_params[first], q>> >>)
        ELSE IF required_params # <<>>
        THEN Returned(<< <<required_params[1], q>> >>)
        ELSE IF properties # <<>>
        THEN Returned(<< <<properties[1], q>> >>)
        ELSE Raised(SchemaErrorMessage)

\* The properties are scanned in declaration order for a priority name.
BuildArguments_DeclarationOrder(tool, q) ==
    LET input_schema == InputSchemaOf(tool)
        required_params == RequiredParams(input_schema)
        properties == Properties(input_schema)
        found == {k \in 1..Len(properties) : properties[k] \in Range(common_params)}
    IN  IF required_params # <<>>
        THEN Returned(<< <<required_params[1], q>> >>)
        ELSE IF found # {}
        THEN LET first == CHOOSE k \in found : \A j \in found : k <= j
             IN  Returned(<< <<properties[first], q>> >>)
        ELSE IF properties # <<>>
        THEN Returned(<< <<properties[1], q>> >>)
        ELSE Raised(SchemaErrorMessage)

\* An empty payload is returned where the ValueError is raised.
BuildArguments_EmptyPayload(tool, q) ==
    LET input_schema == InputSchemaOf(tool)
        required_params == RequiredParams(input_schema)
        properties == Properties(input_schema)
        found == {i \in 1..Len(common_params) : common_params[i] \in Range(properties)}
    IN  IF required_params # <<>>
        THEN Returned(<< <<required_params[1], q>> >>)
        ELSE IF found # {}
        THEN LET first == CHOOSE i \in found : \A j \in found : i <= j
             IN  Returned(<< <<common_params[first], q>> >>)
        ELSE IF properties # <<>>
        THEN Returned(<< <<properties[1], q>> >>)
        ELSE Returned(<<>>)

\* _build_arguments: the payload as its (key, value) entries in insertion
\* order, or the ValueError of the last branch.
BuildArguments(tool, q) ==
    LET input_schema == InputSchemaOf(tool)
        required_params == RequiredParams(input_schema)
        properties == Properties(input_schema)
        found == {i \in 1..Len(common_params) : common_params[i] \in Range(properties)}
    IN  IF required_params # <<>>
        THEN Returned(<< <<required_params[1], q>> >>)
        ELSE IF found # {}
        THEN LET first == CHOOSE i \in found : \A j \in found : i <= j
             IN  Returned(<< <<common_params[first], q>> >>)
        ELSE IF properties # <<>>
        THEN Returned(<< <<properties[1], q>> >>)
        ELSE Raised(SchemaErrorMessage)

\* content.text if hasattr(content, "text") else str(content)
PieceOf(content) == IF content.hasText THEN content.text ELSE content.str

\* "'...' object has no attribute 'content'"
NoContentAttribute == <<"object has no attribute 'content'">>

\* _extract_response_text: reads result.content with no hasattr guard.
ExtractResponseText(result) ==
    IF ~result.hasContent THEN Raised(NoContentAttribute)
    ELSE IF ~result.contentIsNone /\ result.content # <<>>
    THEN Returned(JoinLines([i \in 1..Len(result.content) |-> PieceOf(result.content[i])]))
    ELSE Returned(EmptyResponseMessage)

-----------------------------------------------------------------------------
(* The helpers called directly, on every input within the bounds *)

NotCalled == [state |-> "pending", ok |-> FALSE, val |-> <<>>, err |-> <<>>]
Outcome(r) == [state |-> "done", ok |-> r.ok, val |-> r.val, err |-> r.err]

FnInputs(f) ==
    CASE f = "_normalize_tool_list" -> RawCatalogs
      [] f = "_build_arguments" -> {[tool |-> t, query |-> q] : t \in SchemaTools, q \in Queries}
      [] f = "_extract_response_text" -> Results

CallNormalizeToolList ==
    /\ fn = "_normalize_tool_list" /\ fn_out = NotCalled
    /\ fn_out' = Outcome(Returned(NormalizeToolList(fn_in)))
    /\ UNCHANGED <<fn, fn_in, qvars, bvars>>

CallBuildArguments ==
    /\ fn = "_build_arguments" /\ fn_out = NotCalled
    /\ fn_out' = Outcome(BuildArguments(fn_in.tool, fn_in.query))
    /\ UNCHANGED <<fn, fn_in, qvars, bvars>>

CallExtractResponseText ==
    /\ fn = "_extract_response_text" /\ fn_out = NotCalled
    /\ fn_out' = Outcome(ExtractResponseText(fn_in))
    /\ UNCHANGED <<fn, fn_in, qvars, bvars>>

-----------------------------------------------------------------------------
(* execute_query: BaseMCPClient (used by StdioMCPClient) and HttpMCPClient *)

Kinds == {"stdio", "http"}

\* The module-level function a LangChain Tool of each transport calls.
QueryFunc(k) == IF k = "stdio" THEN "stdio_mcp_query" ELSE "http_mcp_query"

\* Exceptions the transport library raises, by where it raises them.
Exc(type, msg) == [type |-> type, msg |-> msg]
TransportErrors == {Exc("ValueError", <<"Could not infer a valid transport">>)}
ConnectErrors == {Exc("RuntimeError", <<"Client failed to connect: ", "Connection refused">>)}
ListToolsErrors == {Exc("McpError", <<"list_tools failed">>)}
CallToolErrors == {Exc("ToolError", <<"Error calling tool">>)}

NoExc == Exc("", <<>>)
NoCatalog == RawCatalog("not fetched", <<>>)
NoPending == [state |-> "none", text |-> <<>>, exc |-> Exc("", <<>>)]
PendingValue(text) == [state |-> "value", text |-> text, exc |-> Exc("", <<>>)]
PendingException(e) == [state |-> "exception", text |-> <<>>, exc |-> e]
NoRet == [state |-> "none", text |-> <<>>, exc |-> Exc("", <<>>)]
RetValue(text) == [state |-> "returned", text |-> text, exc |-> Exc("", <<>>)]
RetRaise(e) == [state |-> "raised", text |-> <<>>, exc |-> e]

ExceptHandler_OnlyValueError(e) ==
    IF e.type = "ValueError" THEN RetValue(ErrorMarker \o e.msg) ELSE RetRaise(e)

\* except Exception as e: return f"MCPサーバーへの接続エラー: {str(e)}"
ExceptHandler(e) == RetValue(ErrorMarker \o e.msg)

\* first_tool.name if hasattr(first_tool, "name") else str(first_tool)
ToolNameOf(tool) == IF tool.hasName THEN tool.name ELSE StrOfTool(tool)

FirstTool_ByActionName(tool_list, q, v) ==
    IF \E i \in 1..Len(tool_list) : tool_list[i].hasName /\ tool_list[i].name = v
    THEN tool_list[CHOOSE i \in 1..Len(tool_list) : tool_list[i].hasName /\ tool_list[i].name = v]
    ELSE tool_list[1]

\* tool_list[0]
FirstTool(tool_list, q, v) == tool_list[1]

Call(op, name, arguments) == [op |-> op, name |-> name, arguments |-> arguments]

\* The names under which a query of transport k can be started: directly
\* (stdio_mcp_query, http_mcp_query, query_sync), or through a registered
\* action whose func is that transport's function.
Callers(k) ==
    {"direct"} \cup
    {registry[i].name : i \in {j \in 1..Len(registry) : registry[j].func = QueryFunc(k)}}

\* Entry of execute_query.  create_mcp_tools runs to its end without another
\* query in between (it is synchronous), and an error it raises ends the
\* start-up of the caller.
StartQuery(k, q, v) ==
    /\ pc = "idle" /\ bpc \in {"idle", "returned"} /\ fn = ""
    /\ run < MaxRuns
    /\ v \in Callers(k)
    /\ run' = run + 1
    /\ kind' = k /\ query' = q /\ via' = v
    /\ calls' = <<>> /\ catalog' = NoCatalog /\ pending' = NoPending
    /\ client' = 0 /\ failure' = NoExc /\ ret' = NoRet
    /\ pc' = "create"
    /\ UNCHANGED <<conns, bvars, fvars>>

\* transport = await self.create_transport() / client = Client(self.server_url)
CreateTransport ==
    /\ pc = "create"
    /\ \/ pc' = "connect" /\ UNCHANGED <<failure, ret>>
       \/ \E e \in TransportErrors :
            failure' = e /\ ret' = ExceptHandler(e) /\ pc' = "returned"
    /\ UNCHANGED <<kind, query, via, run, conns, calls, catalog, pending, client, bvars, fvars>>

\* async with client: __aenter__ opens the connection, or raises.
Connect ==
    /\ pc = "connect"
    /\ \/ /\ conns' = Append(conns, [owner |-> run, open |-> TRUE, users |-> {}])
          /\ client' = Len(conns) + 1
          /\ calls' = Append(calls, Call("connect", "", <<>>))
          /\ pc' = "list"
          /\ UNCHANGED <<failure, ret>>
       \/ /\ \E e \in ConnectErrors : failure' = e /\ ret' = ExceptHandler(e)
          /\ pc' = "returned"
          /\ UNCHANGED <<conns, client, calls>>
    /\ UNCHANGED <<kind, query, via, run, catalog, pending, bvars, fvars>>

Use(cs, i, r) == [cs EXCEPT ![i].users = @ \cup {r}]

\* The body from list_tools() up to the call of call_tool().
ListTools ==
    /\ pc = "list"
    /\ conns' = Use(conns, client, run)
    /\ \/ /\ \E e \in ListToolsErrors : pending' = PendingException(e) /\ failure' = e
          /\ calls' = Append(calls, Call("list_tools", "", <<>>))
          /\ pc' = "exit"
          /\ UNCHANGED catalog
       \/ \E tools \in RawCatalogs :
            LET tool_list == NormalizeToolList(tools)
                first_tool == FirstTool(tool_list, query, via)
                tool_name == ToolNameOf(first_tool)
                arguments == BuildArguments(first_tool, query)
                listed == Append(calls, Call("list_tools", "", <<>>))
            IN  /\ catalog' = tools
                /\ IF tool_list = <<>>
                   THEN /\ pending' = PendingValue(NoToolsMessage)
                        /\ calls' = listed
                        /\ pc' = "exit"
                        /\ UNCHANGED failure
                   ELSE IF ~arguments.ok
                   THEN /\ pending' = PendingException(Exc("ValueError", arguments.err))
                        /\ failure' = Exc("ValueError", arguments.err)
                        /\ calls' = listed
                        /\ pc' = "exit"
                   ELSE /\ calls' = Append(listed, Call("call_tool", tool_name, arguments.val))
                        /\ pc' = "call"
                        /\ UNCHANGED <<pending, failure>>
    /\ UNCHANGED <<kind, query, via, run, client, ret, bvars, fvars>>

\* call_tool() comes back; the result is turned into text.
CallTool ==
    /\ pc = "call"
    /\ conns' = Use(conns, client, run)
    /\ \/ \E e \in CallToolErrors : pending' = PendingException(e) /\ failure' = e
       \/ \E result \in ServedResults :
            LET response_text == ExtractResponseText(result)
            IN  IF response_text.ok
                THEN pending' = PendingValue(response_text.val) /\ UNCHANGED failure
                ELSE /\ pending' = PendingException(Exc("AttributeError", response_text.err))
                     /\ failure' = Exc("AttributeError", response_text.err)
    /\ pc' = "exit"
    /\ UNCHANGED <<kind, query, via, run, calls, catalog, client, ret, bvars, fvars>>

AExit_LeakOnException(cs, i) ==
    IF pending.state = "exception" THEN cs ELSE [cs EXCEPT ![i].open = FALSE]

\* Client.__aexit__: the connection is closed, however the body was left.
AExit(cs, i) == [cs EXCEPT ![i].open = FALSE]

\* Leaving `async with`: __aexit__ closes the connection; then the value is
\* returned, or the exception reaches the except clause.
CloseConnection ==
    /\ pc = "exit"
    /\ conns' = AExit(conns, client)
    /\ calls' = Append(calls, Call("close", "", <<>>))
    /\ ret' = IF pending.state = "exception"
              THEN ExceptHandler(pending.exc)
              ELSE RetValue(pending.text)
    /\ pc' = "returned"
    /\ UNCHANGED <<kind, query, via, run, catalog, pending, client, failure, bvars, fvars>>

\* The caller has the result; the client object and its locals are gone.
Return ==
    /\ pc = "returned"
    /\ pc' = "idle"
    /\ kind' = "" /\ query' = "" /\ via' = ""
    /\ calls' = <<>> /\ catalog' = NoCatalog /\ pending' = NoPending
    /\ client' = 0 /\ failure' = NoExc /\ ret' = NoRet
    /\ UNCHANGED <<run, conns, bvars, fvars>>

-----------------------------------------------------------------------------
(* The registry build: get_*_mcp_tools_info, create_*_mcp_tools and         *)
(* create_mcp_tools                                                         *)

\* The tools a server advertises while the registry is built.
StartupPool == {SearchTool, LookupTool}

\* What one discovery connection meets: a failure to spawn or connect, a
\* failing list_tools, or a discovery response.
Discovery(met, tools) == [failure |-> met, tools |-> tools]
Discoveries ==
    {Discovery("connect", NoCatalog), Discovery("list_tools", NoCatalog)}
        \cup {Discovery("", RawCatalog(sh, ts)) :
                sh \in {"wrapper", "list", "dict"}, ts \in BSeq(StartupPool, MaxTools)}

\* What a discovery connection met, as the build remembers it: the failing
\* step, a response that is neither a .tools holder nor a list, a catalog
\* with no tool, or a catalog with tools.
Met(d) ==
    IF d.failure # "" THEN d.failure
    ELSE IF d.tools.shape \notin {"wrapper", "list"} THEN "unexpected format"
    ELSE IF Len(d.tools.tools) = 0 THEN "empty catalog"
    ELSE "tools"

\* "MCPサーバーから提供されるツール"
DefaultDescription == <<"A tool provided by the MCP server">>

\* The dict get_*_mcp_tools_info collects for one tool (three getattr calls).
ToolInfo(tool) ==
    [name |-> IF tool.hasName THEN tool.name ELSE "unknown_tool",
     description |-> IF tool.hasDescription THEN tool.description ELSE DefaultDescription,
     inputSchema |-> IF tool.hasInputSchema THEN tool.inputSchema ELSE EmptyDict]

\* The body of the try of get_*_mcp_tools_info: its list, or an exception.
CollectToolsInfo(d) ==
    IF d.failure # "" THEN Raised(<<d.failure, " failed">>)
    ELSE IF HasToolsAttr(d.tools) \/ IsList(d.tools)
    THEN Returned([i \in 1..Len(d.tools.tools) |-> ToolInfo(d.tools.tools[i])])
    ELSE Raised(<<"unexpected tools format">>)

get_stdio_mcp_tools_info_Placeholder(d) ==
    IF CollectToolsInfo(d).ok THEN CollectToolsInfo(d).val
    ELSE <<[name |-> "mcp_security_search_stdio",
            description |-> <<"MCP server tool", "(stdio)">>,
            inputSchema |-> EmptyDict]>>

\* get_stdio_mcp_tools_info: any exception becomes [].
get_stdio_mcp_tools_info(d) ==
    IF CollectToolsInfo(d).ok THEN CollectToolsInfo(d).val ELSE <<>>

get_http_mcp_tools_info_NoFallback(d) ==
    IF CollectToolsInfo(d).ok THEN CollectToolsInfo(d).val ELSE <<>>

\* "セキュリティ関連の専門的な検索・分析を行うMCPサーバーツール（Streamable HTTP方式）"
FallbackToolInfo ==
    [name |-> "mcp_security_search_http",
     description |-> <<"MCP server tool for security search and analysis",
                       "(Streamable HTTP)">>,
     inputSchema |-> EmptyDict]

\* get_http_mcp_tools_info: any exception becomes the one default entry.
get_http_mcp_tools_info(d) ==
    IF CollectToolsInfo(d).ok THEN CollectToolsInfo(d).val ELSE <<FallbackToolInfo>>

\* Pieces of text in which "http" occurs (compared in lower case), and the
\* piece "標準入出力方式" occurs in.
HttpPieces == {"HTTP", "(Streamable HTTP)"}
StdioPieces == {"(stdio)"}

\* The description a registered action gets: annotated with the transport
\* method unless it mentions it already.
Annotate(k, description) ==
    IF k = "http"
    THEN IF Range(description) \cap HttpPieces # {} THEN description
         ELSE description \o <<"(Streamable HTTP)">>
    ELSE IF Range(description) \cap StdioPieces # {} THEN description
         ELSE description \o <<"(stdio)">>

\* Tool(name=tool_name, description=tool_description, func=...)
Tool(name, description, func) == [name |-> name, description |-> description, func |-> func]

\* The dict stored as <func>._mcp_meta
McpMeta(k, info) ==
    [set |-> TRUE, transport |-> k, tool_name |-> info.name, inputSchema |-> info.inputSchema]
NoMeta == [set |-> FALSE, transport |-> "", tool_name |-> "", inputSchema |-> EmptyDict]

\* The loop of create_*_mcp_tools over tools_info: the actions it builds ...
LangchainTools(k, tools_info) ==
    [i \in 1..Len(tools_info) |->
        Tool(tools_info[i].name, Annotate(k, tools_info[i].description), QueryFunc(k))]

\* ... and what it leaves in <func>._mcp_meta: each iteration overwrites the
\* attribute of the one module-level function.
MetaAfterLoop(k, tools_info, before) ==
    IF tools_info = <<>> THEN before ELSE McpMeta(k, tools_info[Len(tools_info)])

CreateTools_AllowEmpty(k, d) ==
    LET tools_info == IF k = "stdio" THEN get_stdio_mcp_tools_info(d)
                      ELSE get_http_mcp_tools_info(d)
    IN  [ok |-> TRUE, tools |-> LangchainTools(k, tools_info), info |-> tools_info]

\* create_stdio_mcp_tools / create_http_mcp_tools on what discovery met:
\* the list of actions, or the RuntimeError of an empty tools_info.
CreateTools(k, d) ==
    LET tools_info == IF k = "stdio" THEN get_stdio_mcp_tools_info(d)
                      ELSE get_http_mcp_tools_info(d)
    IN  IF tools_info = <<>>
        THEN [ok |-> FALSE, tools |-> <<>>, info |-> tools_info]
        ELSE [ok |-> TRUE, tools |-> LangchainTools(k, tools_info), info |-> tools_info]

NoError == [type |-> "", names |-> <<>>]

\* create_mcp_tools is entered: mcp_tools = []
BuildStart ==
    /\ bpc = "idle" /\ pc = "idle" /\ fn = ""
    /\ bpc' = "stdio"
    /\ mcp_tools' = <<>>
    /\ UNCHANGED <<registry, build_err, fetched, discovered, mcp_meta, qvars, fvars>>

\* The STDIO block: create_stdio_mcp_tools(), extend, or re-raise.
BuildStdio ==
    /\ bpc = "stdio"
    /\ \E d \in Discoveries :
         LET made == CreateTools("stdio", d)
         IN  /\ discovered' = [discovered EXCEPT !["stdio"] = Met(d)]
             /\ IF made.ok
                THEN /\ mcp_tools' = mcp_tools \o made.tools
                     /\ mcp_meta' = [mcp_meta EXCEPT !["stdio"] = MetaAfterLoop("stdio", made.info, @)]
                     /\ fetched' = Append(fetched, "stdio")
                     /\ bpc' = "http"
                     /\ UNCHANGED build_err
                ELSE /\ build_err' = [type |-> "RuntimeError", names |-> <<>>]
                     /\ bpc' = "raised"
                     /\ UNCHANGED <<mcp_tools, fetched, mcp_meta>>
    /\ UNCHANGED <<registry, qvars, fvars>>

\* The HTTP block: create_http_mcp_tools(), extend, or re-raise.
BuildHttp ==
    /\ bpc = "http"
    /\ \E d \in Discoveries :
         LET made == CreateTools("http", d)
         IN  /\ discovered' = [discovered EXCEPT !["http"] = Met(d)]
             /\ IF made.ok
                THEN /\ mcp_tools' = mcp_tools \o made.tools
                     /\ mcp_meta' = [mcp_meta EXCEPT !["http"] = MetaAfterLoop("http", made.info, @)]
                     /\ fetched' = Append(fetched, "http")
                     /\ bpc' = "check"
                     /\ UNCHANGED build_err
                ELSE /\ build_err' = [type |-> "RuntimeError", names |-> <<>>]
                     /\ bpc' = "raised"
                     /\ UNCHANGED <<mcp_tools, fetched, mcp_meta>>
    /\ UNCHANGED <<registry, qvars, fvars>>

\* tool_names.count(name)
Count(names, name) == Cardinality({i \in 1..Len(names) : names[i] = name})

\* Only the first repeated name is reported.
DuplicateNames_FirstOnly(tool_names) ==
    LET dup == {i \in 1..Len(tool_names) : Count(tool_names, tool_names[i]) > 1}
    IN  IF dup = {} THEN <<>>
        ELSE <<tool_names[CHOOSE i \in dup : \A j \in dup : i <= j]>>

\* [name for name in tool_names if tool_names.count(name) > 1]
DuplicateNames(tool_names) ==
    LET IsDup(name) == Count(tool_names, name) > 1
    IN  SelectSeq(tool_names, IsDup)

\* The duplicate check and the return.
BuildCheck ==
    /\ bpc = "check"
    /\ LET tool_names == [i \in 1..Len(mcp_tools) |-> mcp_tools[i].name]
           duplicate_names == DuplicateNames(tool_names)
       IN  IF duplicate_names # <<>>
           THEN /\ build_err' = [type |-> "ValueError", names |-> duplicate_names]
                /\ bpc' = "raised"
                /\ UNCHANGED <<mcp_tools, registry>>
           ELSE /\ registry' = mcp_tools
                /\ bpc' = "returned"
                /\ UNCHANGED <<mcp_tools, build_err>>
    /\ UNCHANGED <<fetched, discovered, mcp_meta, qvars, fvars>>

-----------------------------------------------------------------------------
(* The system *)

Helpers == {"_normalize_tool_list", "_build_arguments", "_extract_response_text"}

\* Nothing runs and nothing is built; a behaviour either calls one helper on
\* one input, or runs the clients and the registry build.
Init ==
    /\ pc = "idle" /\ kind = "" /\ query = "" /\ via = ""
    /\ run = 0 /\ conns = <<>> /\ calls = <<>>
    /\ catalog = NoCatalog /\ pending = NoPending /\ client = 0
    /\ failure = NoExc /\ ret = NoRet
    /\ bpc = "idle" /\ mcp_tools = <<>> /\ registry = <<>>
    /\ build_err = NoError /\ fetched = <<>>
    /\ discovered = [k \in Kinds |-> "not tried"]
    /\ mcp_meta = [k \in Kinds |-> NoMeta]
    /\ \/ fn = "" /\ fn_in = <<>> /\ fn_out = NotCalled
       \/ \E f \in Helpers : fn = f /\ fn_in \in FnInputs(f) /\ fn_out = NotCalled

vars == <<qvars, bvars, fvars>>

Next ==
    \/ \E k \in Kinds, q \in Queries : \E v \in Callers(k) : StartQuery(k, q, v)
    \/ CreateTransport
    \/ Connect
    \/ ListTools
    \/ CallTool
    \/ CloseConnection
    \/ Return
    \/ BuildStart
    \/ BuildStdio
    \/ BuildHttp
    \/ BuildCheck
    \/ CallNormalizeToolList
    \/ CallBuildArguments
    \/ CallExtractResponseText

Spec == Init /\ [][Next]_vars

-----------------------------------------------------------------------------
(* Properties *)

IsCallTool(c) == c.op = "call_tool"
CallToolAt == {i \in DOMAIN calls : IsCallTool(calls[i])}
Fetched == catalog # NoCatalog

\* C1: execute_query never raises; whenever a failure was raised inside it
\* (transport creation, connect, list_tools, argument synthesis, call_tool,
\* response normalization), it returns the error marker followed by the
\* description of that failure.
C1_ExecuteQueryNeverRaises ==
    /\ ret.state # "raised"
    /\ pc = "returned" => ret.state = "returned"
    /\ (pc = "returned" /\ failure # NoExc) =>
          /\ StartsWith(ret.text, <<"MCP server connection error: ">>)
          /\ ret.text = <<"MCP server connection error: ">> \o failure.msg

C1_Witness ==
    /\ pc = "returned" /\ kind = "stdio"
    /\ failure.type = "AttributeError"
    /\ ret.state = "returned"
    /\ ret.text = <<"MCP server connection error: ", "object has no attribute 'content'">>

\* C2: a run opens at most one connection, only the run that opened a
\* connection uses it, and no connection is open once execute_query has
\* returned, however the body was left.
C2_ConnectionScoped ==
    /\ \A i, j \in DOMAIN conns : conns[i].owner = conns[j].owner => i = j
    /\ \A i \in DOMAIN conns : conns[i].users \subseteq {conns[i].owner}
    /\ \A i \in DOMAIN conns :
          conns[i].open => i = client /\ conns[i].owner = run /\ pc \in {"list", "call", "exit"}
    /\ pc \in {"returned", "idle"} => \A i \in DOMAIN conns : ~conns[i].open

C2_Witness ==
    /\ pc = "returned" /\ run = 2 /\ Len(conns) = 2
    /\ failure.type = "ToolError"
    /\ conns[1].users = {1} /\ conns[2].users = {2}
    /\ \A i \in DOMAIN conns : ~conns[i].open

\* C3: when the fetched catalog is empty or of an unrecognized shape, the
\* run returns the no-tools message (not the error marker), raises nothing,
\* and never calls call_tool.
C3_EmptyCatalog ==
    (Fetched /\ (catalog.shape \notin {"wrapper", "list"} \/ catalog.tools = <<>>)) =>
        /\ CallToolAt = {}
        /\ failure = NoExc
        /\ pc \in {"exit", "returned"}
        /\ pc = "exit" => pending = PendingValue(<<"No tools available on the MCP server.">>)
        /\ pc = "returned" =>
              /\ ret = RetValue(<<"No tools available on the MCP server.">>)
              /\ ~StartsWith(ret.text, ErrorMarker)

C3_Witness ==
    /\ pc = "returned"
    /\ catalog.shape = "dict" /\ catalog.tools # <<>>
    /\ ret = RetValue(NoToolsMessage)
    /\ CallToolAt = {}

\* C4: a run calls call_tool at most once, exactly once when it reaches the
\* invocation, after list_tools, and with the name of the first element of
\* the catalog it fetched, whatever the query and the calling action.
C4_FirstToolOnly ==
    /\ Cardinality(CallToolAt) <= 1
    /\ pc = "call" => Cardinality(CallToolAt) = 1
    /\ (pc \in {"exit", "returned"} /\ pending.state # "none" /\ failure.type \in {"ToolError", "AttributeError"})
          => Cardinality(CallToolAt) = 1
    /\ \A i \in CallToolAt :
          /\ \E j \in 1..(i - 1) : calls[j].op = "list_tools"
          /\ catalog.shape \in {"wrapper", "list"} /\ catalog.tools # <<>>
          /\ calls[i].name = IF catalog.tools[1].hasName
                             THEN catalog.tools[1].name
                             ELSE StrOfTool(catalog.tools[1])

C4_Witness ==
    /\ pc = "returned" /\ via = "lookup"
    /\ catalog.tools = <<SearchTool, LookupTool>>
    /\ \E i \in CallToolAt : calls[i].name = "search"
    /\ ret.state = "returned" /\ failure = NoExc

BuildArgumentsCalled == fn = "_build_arguments" /\ fn_out.state = "done"

\* The inputSchema of a tool names a required parameter.
HasRequired(tool) ==
    /\ tool.hasInputSchema /\ ~tool.inputSchema.isNone
    /\ tool.inputSchema.hasRequired /\ tool.inputSchema.required # <<>>

\* The inputSchema of a tool declares a property.
HasProperties(tool) ==
    /\ tool.hasInputSchema /\ ~tool.inputSchema.isNone
    /\ tool.inputSchema.hasProperties /\ tool.inputSchema.properties # <<>>

\* C5: with a non-empty `required`, the payload is the one entry
\* {required[0]: query}, whatever `properties` holds; so is the payload a
\* run sends to call_tool.
C5_RequiredFirst ==
    /\ (BuildArgumentsCalled /\ HasRequired(fn_in.tool)) =>
          /\ fn_out.ok
          /\ Len(fn_out.val) = 1
          /\ fn_out.val[1] = <<fn_in.tool.inputSchema.required[1], fn_in.query>>
    /\ \A i \in CallToolAt :
          HasRequired(catalog.tools[1]) =>
              calls[i].arguments = << <<catalog.tools[1].inputSchema.required[1], query>> >>

C5_Witness ==
    /\ BuildArgumentsCalled
    /\ fn_in.tool.inputSchema.required = <<"zeta", "alpha">>
    /\ fn_in.tool.inputSchema.properties = <<"query", "prompt">>
    /\ fn_out.ok /\ fn_out.val = << <<"zeta", fn_in.query>> >>

\* The parameter C6 names for a dict of properties given by its keys.
C6_Target(properties) ==
    LET priority == <<"query", "prompt", "input", "text", "question">>
        hits == {i \in 1..5 : \E k \in 1..Len(properties) : properties[k] = priority[i]}
    IN  IF hits = {} THEN properties[1]
        ELSE priority[CHOOSE i \in hits : \A j \in hits : i <= j]

\* C6: with no `required` and a non-empty `properties`, the payload is the
\* one entry {target: query}: target is the earliest name of the priority
\* list among the keys, else the first declared key.
C6_PriorityThenDeclared ==
    /\ (BuildArgumentsCalled /\ ~HasRequired(fn_in.tool) /\ HasProperties(fn_in.tool)) =>
          /\ fn_out.ok
          /\ Len(fn_out.val) = 1
          /\ fn_out.val[1] = <<C6_Target(fn_in.tool.inputSchema.properties), fn_in.query>>
    /\ \A i \in CallToolAt :
          (~HasRequired(catalog.tools[1]) /\ HasProperties(catalog.tools[1])) =>
              calls[i].arguments =
                  << <<C6_Target(catalog.tools[1].inputSchema.properties), query>> >>

C6_Witness ==
    /\ BuildArgumentsCalled
    /\ ~fn_in.tool.inputSchema.hasRequired
    /\ fn_in.tool.inputSchema.properties = <<"zeta", "alpha">>
    /\ fn_in.query = "hi"
    /\ fn_out.ok /\ fn_out.val = << <<"zeta", "hi">> >>

\* C7: with neither a non-empty `required` nor a non-empty `properties`
\* (schema, or either key, absent included) _build_arguments raises the
\* schema error and yields no payload; a run whose first tool is such a tool
\* returns the error marker with that error and never calls call_tool.
C7_NoParameterFails ==
    /\ (BuildArgumentsCalled /\ ~HasRequired(fn_in.tool) /\ ~HasProperties(fn_in.tool)) =>
          /\ ~fn_out.ok
          /\ fn_out.val = <<>>
          /\ fn_out.err = <<"Could not get the schema of the MCP tool.">>
    /\ (/\ Fetched /\ catalog.shape \in {"wrapper", "list"} /\ catalog.tools # <<>>
        /\ ~HasRequired(catalog.tools[1]) /\ ~HasProperties(catalog.tools[1])) =>
          /\ CallToolAt = {}
          /\ pc \in {"exit", "returned"}
          /\ failure = Exc("ValueError", <<"Could not get the schema of the MCP tool.">>)
          /\ pc = "returned" =>
                ret = RetValue(<<"MCP server connection error: ",
                                 "Could not get the schema of the MCP tool.">>)

C7_Witness ==
    /\ pc = "returned" /\ kind = "http"
    /\ catalog.tools = <<FetchTool, SearchTool>>
    /\ CallToolAt = {}
    /\ ret = RetValue(ErrorMarker \o SchemaErrorMessage)

\* C8: _normalize_tool_list gives the tools of a wrapper and a bare list
\* alike, in their order, and the empty list, without raising, for a value
\* of any other shape.
C8_NormalizeShapes ==
    (fn = "_normalize_tool_list" /\ fn_out.state = "done") =>
        /\ fn_out.ok
        /\ fn_in.shape \in {"wrapper", "list"} => fn_out.val = fn_in.tools
        /\ fn_in.shape \notin {"wrapper", "list"} => fn_out.val = <<>>
        /\ NormalizeToolList(RawCatalog("wrapper", fn_in.tools))
              = NormalizeToolList(RawCatalog("list", fn_in.tools))

C8_Witness ==
    /\ fn = "_normalize_tool_list" /\ fn_out.state = "done"
    /\ fn_in.shape = "wrapper"
    /\ fn_in.tools = <<LookupTool, SearchTool>>
    /\ fn_out.val = <<LookupTool, SearchTool>>

\* The text C9 names for a list of content blocks.
RECURSIVE C9_Text(_)
C9_Text(content) ==
    LET piece(b) == IF b.hasText THEN b.text ELSE b.str
    IN  IF Len(content) = 1 THEN piece(content[1])
        ELSE piece(content[1]) \o <<"\n">> \o C9_Text(Tail(content))

\* C9: _extract_response_text never fails: the empty-response sentinel for
\* an empty or absent `content`, else the pieces of the blocks, in order,
\* joined by newlines.
C9_ExtractNeverFails ==
    (fn = "_extract_response_text" /\ fn_out.state = "done") =>
        /\ fn_out.ok
        /\ (~fn_in.hasContent \/ fn_in.contentIsNone \/ fn_in.content = <<>>) =>
              fn_out.val = <<"The response of the MCP server was empty.">>
        /\ (fn_in.hasContent /\ ~fn_in.contentIsNone /\ fn_in.content # <<>>) =>
              fn_out.val = C9_Text(fn_in.content)

NamesOf(tools) == [i \in 1..Len(tools) |-> tools[i].name]
Repeated(names) == {n \in Range(names) : \E i, j \in 1..Len(names) : i # j /\ names[i] = n /\ names[j] = n}

\* C10: create_mcp_tools checks the names only once both fetches are back;
\* a name that repeats in the aggregated list makes it raise an error that
\* names every repeated name, and return nothing; a returned list has
\* pairwise distinct names.
C10_DuplicateCheck ==
    /\ bpc \in {"stdio", "http"} => build_err = NoError /\ registry = <<>>
    /\ bpc \in {"check", "returned"} => fetched = <<"stdio", "http">>
    /\ bpc = "returned" =>
          /\ registry = mcp_tools /\ build_err = NoError
          /\ Repeated(NamesOf(registry)) = {}
    /\ bpc = "raised" => registry = <<>>
    /\ build_err.type = "ValueError" =>
          /\ bpc = "raised" /\ fetched = <<"stdio", "http">>
          /\ Repeated(NamesOf(mcp_tools)) # {}
          /\ Range(build_err.names) = Repeated(NamesOf(mcp_tools))
    /\ (bpc = "raised" /\ fetched = <<"stdio", "http">>) =>
          /\ build_err.type = "ValueError"
          /\ Repeated(NamesOf(mcp_tools)) # {}

C10_Witness ==
    /\ bpc = "raised" /\ build_err.type = "ValueError"
    /\ NamesOf(mcp_tools) = <<"search", "lookup", "lookup", "search">>
    /\ Range(build_err.names) = {"search", "lookup"}
    /\ registry = <<>>

\* The actions of a list that call the function f.
ActionsOf(tools, f) == SelectSeq(tools, LAMBDA t : t.func = f)

\* C11: the registry build fails fast on the process-pipe transport: when its
\* discovery fails (spawn or connect error, list_tools error, unrecognized
\* catalog shape) or yields no tool, create_mcp_tools raises and returns no
\* action, and every process-pipe action ever built carries the name of a
\* tool that the server advertised, never a placeholder.
C11_StdioFailsFast ==
    /\ discovered["stdio"] \in {"connect", "list_tools", "unexpected format", "empty catalog"} =>
          /\ bpc = "raised" /\ build_err.type = "RuntimeError"
          /\ mcp_tools = <<>> /\ registry = <<>>
          /\ fetched = <<>>
    /\ \A i \in 1..Len(mcp_tools) :
          mcp_tools[i].func = "stdio_mcp_query" =>
             /\ discovered["stdio"] = "tools"
             /\ mcp_tools[i].name \in {"search", "lookup"}
    /\ \A i \in 1..Len(registry) :
          registry[i].func = "stdio_mcp_query" => registry[i].name \in {"search", "lookup"}

C11_Witness ==
    /\ discovered["stdio"] = "unexpected format"
    /\ bpc = "raised" /\ build_err.type = "RuntimeError"
    /\ mcp_tools = <<>> /\ registry = <<>>

\* C12: the registry build soft-fails on the network transport: when its
\* discovery fails entirely (endpoint unreachable, list_tools error,
\* unrecognized catalog shape), create_http_mcp_tools does not raise and
\* yields exactly one action, with the fixed name, the fixed description and
\* an empty input schema; invoking that action while the endpoint is still
\* unreachable returns the error-marker text and raises nothing.
C12_HttpSoftFails ==
    /\ discovered["http"] \in {"connect", "list_tools", "unexpected format"} =>
          /\ build_err.type # "RuntimeError"
          /\ fetched = <<"stdio", "http">>
          /\ ActionsOf(mcp_tools, "http_mcp_query") =
                <<[name |-> "mcp_security_search_http",
                   description |-> <<"MCP server tool for security search and analysis",
                                     "(Streamable HTTP)">>,
                   func |-> "http_mcp_query"]>>
          /\ mcp_meta["http"].set
          /\ mcp_meta["http"].tool_name = "mcp_security_search_http"
          /\ mcp_meta["http"].inputSchema = EmptyDict
    /\ (pc = "returned" /\ via = "mcp_security_search_http") =>
          /\ kind = "http"
          /\ ret.state = "returned"
          /\ failure \in ConnectErrors =>
                /\ StartsWith(ret.text, <<"MCP server connection error: ">>)
                /\ \A i \in 1..Len(conns) : conns[i].owner # run

C12_Witness ==
    /\ discovered["http"] = "connect"
    /\ bpc = "returned"
    /\ Len(ActionsOf(registry, "http_mcp_query")) = 1
    /\ pc = "returned" /\ via = "mcp_security_search_http"
    /\ failure \in ConnectErrors
    /\ ret.state = "returned"
    /\ StartsWith(ret.text, <<"MCP server connection error: ">>)

\* The transport whose module-level function an action calls, and the input
\* schema a server advertises for a tool name (the placeholder has none).
TransportOf(func) == IF func = "stdio_mcp_query" THEN "stdio" ELSE "http"
AdvertisedSchema(name) ==
    IF \E t \in StartupPool : t.hasName /\ t.name = name
    THEN (CHOOSE t \in StartupPool : t.hasName /\ t.name = name).inputSchema
    ELSE EmptyDict

\* C13: once the registry build has returned, the _mcp_meta reachable through
\* the func of every returned action identifies that action's own tool:
\* tool_name is the action's name and inputSchema is that tool's input
\* schema, also when one transport advertises two or more tools.
C13_MetaIdentifiesOwnTool ==
    bpc = "returned" =>
        \A i \in 1..Len(registry) :
            LET meta == mcp_meta[TransportOf(registry[i].func)]
            IN  /\ meta.set
                /\ meta.transport = TransportOf(registry[i].func)
                /\ meta.tool_name = registry[i].name
                /\ meta.inputSchema = AdvertisedSchema(registry[i].name)

\* C14: create_mcp_tools never returns with no action of a transport: a
\* discovery that succeeds with an empty catalog makes the builder of that
\* transport raise (on the network transport too, with no placeholder), so
\* a returned list holds at least one process-pipe action and at least one
\* network action; and when the process-pipe builder raises, the build ends
\* before the network catalog is fetched.
C14_NoEmptyTransport ==
    /\ bpc = "returned" =>
          /\ ActionsOf(registry, "stdio_mcp_query") # <<>>
          /\ ActionsOf(registry, "http_mcp_query") # <<>>
    /\ discovered["stdio"] = "empty catalog" =>
          /\ bpc = "raised" /\ build_err.type = "RuntimeError"
          /\ registry = <<>> /\ mcp_tools = <<>>
    /\ discovered["http"] = "empty catalog" =>
          /\ bpc = "raised" /\ build_err.type = "RuntimeError"
          /\ registry = <<>>
          /\ ActionsOf(mcp_tools, "http_mcp_query") = <<>>
          /\ ~mcp_meta["http"].set
    /\ discovered["stdio"] \notin {"not tried", "tools"} =>
          /\ bpc = "raised"
          /\ discovered["http"] = "not tried"
          /\ fetched = <<>>
          /\ ~mcp_meta["http"].set
    /\ discovered["http"] # "not tried" => discovered["stdio"] = "tools"

C14_Witness ==
    /\ discovered["stdio"] = "tools" /\ discovered["http"] = "empty catalog"
    /\ bpc = "raised" /\ build_err.type = "RuntimeError"
    /\ fetched = <<"stdio">>
    /\ Len(mcp_tools) = 2 /\ registry = <<>>

====
